---- MODULE Spec2Model ----
(***************************************************************************)
(* Model of the micattix rules engine: Board (src/core.rs) and             *)
(* GameSession (src/game.rs).  A session is built by GameSession::new or   *)
(* GameSession::new_with_board and driven by process_move and              *)
(* start_next_round.                                                       *)
(***************************************************************************)
EXTENDS Integers, Sequences, FiniteSets, TLC

\* ------------------------------------------------------------------ bounds
\* Number of shuffle outcomes of Board::initialize that are explored.
MaxShift == 2
\* Number of successful moves explored in one session.
MaxMoves == 3
\* Largest round number explored.
MaxRound == 2

\* ------------------------------------------------- core.rs: enums, Player
Sizes == {"Small", "Large"}

\* Board sizes of the sessions that are played move by move.
PlayedSizes == {"Small"}

GameModes == {"TwoPlayers", "FourPlayers"}

Players == {"First", "Second", "Third", "Fourth"}

dimensions(size) == IF size = "Small" THEN <<4, 4>> ELSE <<6, 6>>

\* direction with only First on the horizontal axis.
direction_first_only(player) ==
    IF player = "First" THEN "Horizontal" ELSE "Vertical"

direction(player) ==
    IF player \in {"First", "Third"} THEN "Horizontal" ELSE "Vertical"

next(player) ==
    CASE player = "First"  -> "Second"
      [] player = "Second" -> "Third"
      [] player = "Third"  -> "Fourth"
      [] player = "Fourth" -> "First"

get_players(game_mode) ==
    IF game_mode = "TwoPlayers"
    THEN <<"First", "Second">>
    ELSE <<"First", "Second", "Third", "Fourth">>

\* next_for_mode that ignores the mode and uses the four-way rotation.
next_for_mode_raw(player, game_mode) == next(player)

\* next_for_mode that alternates between First and Second in every mode.
next_for_mode_two_way(player, game_mode) ==
    IF player = "First" THEN "Second" ELSE "First"

next_for_mode(player, game_mode) ==
    IF game_mode = "TwoPlayers"
    THEN CASE player = "First"  -> "Second"
           [] player = "Second" -> "First"
           [] player = "Third"  -> "Fourth"
           [] player = "Fourth" -> "Third"
    ELSE next(player)

\* ------------------------------------------------------- core.rs: Piece
Number(n) == [t |-> "Number", v |-> n]

Cross == [t |-> "Cross", v |-> 0]

Empty == [t |-> "Empty", v |-> 0]

\* ------------------------------------------------ core.rs: Board::new
RECURSIVE Doubled(_, _)
\* for i in lo..=hi { push(Number(i)); push(Number(i)) }
Doubled(lo, hi) ==
    IF lo > hi THEN <<>> ELSE <<Number(lo), Number(lo)>> \o Doubled(lo + 1, hi)

RECURSIVE Singles(_, _)
\* for i in lo..=hi { push(Number(i)) }
Singles(lo, hi) ==
    IF lo > hi THEN <<>> ELSE <<Number(lo)>> \o Singles(lo + 1, hi)

RECURSIVE Negated(_, _)
\* for i in lo..=hi { push(Number(-i)) }
Negated(lo, hi) ==
    IF lo > hi THEN <<>> ELSE <<Number(0 - lo)>> \o Negated(lo + 1, hi)

\* pieces_set whose Small list holds the 7 once and the 8 twice.
pieces_set_two_eights(size) ==
    IF size = "Small"
    THEN Doubled(1, 6) \o <<Number(7)>> \o <<Number(8), Number(8)>> \o <<Cross>>
    ELSE Doubled(1, 9) \o Negated(1, 10) \o <<Number(10)>> \o <<Cross>>
         \o Singles(1, 6)

\* pieces_set whose Large list pushes the run 1..10 without the minus sign.
pieces_set_all_positive(size) ==
    IF size = "Small"
    THEN Doubled(1, 7) \o <<Number(8)>> \o <<Cross>>
    ELSE Doubled(1, 9) \o Singles(1, 10) \o <<Number(10)>> \o <<Cross>>
         \o Singles(1, 6)

pieces_set(size) ==
    IF size = "Small"
    THEN Doubled(1, 7) \o <<Number(8)>> \o <<Cross>>
    ELSE Doubled(1, 9) \o Negated(1, 10) \o <<Number(10)>> \o <<Cross>>
         \o Singles(1, 6)

\* One outcome of pieces_set.shuffle(&mut rng): the k-th rotation of the list.
shuffle(set, k) ==
    [i \in 1..Len(set) |-> set[((i - 1 + k) % Len(set)) + 1]]

Cells(size) ==
    (0..(dimensions(size)[1] - 1)) \X (0..(dimensions(size)[2] - 1))

\* assert_eq!(pieces_set.len(), total_cells) of initialize
initialize_asserts(size) ==
    Len(pieces_set(size)) = dimensions(size)[1] * dimensions(size)[2]

\* The board after Board::new(size) when the shuffle produced rotation k.
\* The tile-count assertion of initialize is the guard Len(placed) = rows*cols.
new_board(size, k) ==
    LET rows == dimensions(size)[1]
        cols == dimensions(size)[2]
        placed == shuffle(pieces_set(size), k)
        grid == [r \in 0..(rows - 1) |->
                   [c \in 0..(cols - 1) |-> placed[r * cols + c + 1]]]
        \* cross_position starts at (0, 0) and is overwritten by the scan
        found == {rc \in Cells(size) : grid[rc[1]][rc[2]] = Cross}
    IN  [size |-> size,
         pieces |-> grid,
         cross_position |-> IF found = {} THEN <<0, 0>>
                            ELSE CHOOSE rc \in found :
                                   \A o \in found :
                                     o[1] * cols + o[2] <= rc[1] * cols + rc[2]]


\* ---------------------------------------- core.rs: Board accessors / moves
in_bounds(b, row, col) ==
    row < dimensions(b.size)[1] /\ col < dimensions(b.size)[2]

\* get_piece that clamps the coordinate to the nearest cell of the grid.
get_piece_clamps(b, row, col) ==
    LET r == IF row < dimensions(b.size)[1] THEN row ELSE dimensions(b.size)[1] - 1
        c == IF col < dimensions(b.size)[2] THEN col ELSE dimensions(b.size)[2] - 1
    IN  b.pieces[r][c]

get_piece(b, row, col) ==
    IF in_bounds(b, row, col) THEN b.pieces[row][col] ELSE Empty

set_piece(b, row, col, piece) ==
    IF in_bounds(b, row, col)
    THEN [b EXCEPT !.pieces[row][col] = piece,
                   !.cross_position = IF piece = Cross THEN <<row, col>> ELSE @]
    ELSE b

\* for c in 0..cols { if c != col && pieces[row][c] != Empty { push((row, c)) } }
scan_row(b, row, col) ==
    LET keep(t) == t[2] # col /\ b.pieces[row][t[2]] # Empty
    IN  SelectSeq([i \in 1..dimensions(b.size)[2] |-> <<row, i - 1>>], keep)

\* for r in 0..rows { if r != row && pieces[r][col] != Empty { push((r, col)) } }
scan_col(b, row, col) ==
    LET keep(t) == t[1] # row /\ b.pieces[t[1]][col] # Empty
    IN  SelectSeq([i \in 1..dimensions(b.size)[1] |-> <<i - 1, col>>], keep)

\* get_valid_moves that keeps the emptied cells of the line.
get_valid_moves_keeps_empty(b, player) ==
    IF direction(player) = "Horizontal"
    THEN SelectSeq([i \in 1..dimensions(b.size)[2] |-> <<b.cross_position[1], i - 1>>],
                   LAMBDA t : t # b.cross_position)
    ELSE SelectSeq([i \in 1..dimensions(b.size)[1] |-> <<i - 1, b.cross_position[2]>>],
                   LAMBDA t : t # b.cross_position)

\* get_valid_moves that scans from the far end of the line.
get_valid_moves_from_far_end(b, player) ==
    LET found == IF direction(player) = "Horizontal"
                 THEN scan_row(b, b.cross_position[1], b.cross_position[2])
                 ELSE scan_col(b, b.cross_position[1], b.cross_position[2])
    IN  [i \in 1..Len(found) |-> found[Len(found) + 1 - i]]

get_valid_moves(b, player) ==
    IF direction(player) = "Horizontal"
    THEN scan_row(b, b.cross_position[1], b.cross_position[2])
    ELSE scan_col(b, b.cross_position[1], b.cross_position[2])

contains(seq, x) == \E i \in 1..Len(seq) : seq[i] = x

\* make_move that forgets to clear the marker's old cell.
make_move_leaves_cross(b, player, target) ==
    IF ~contains(get_valid_moves(b, player), target)
    THEN [ok |-> FALSE, piece |-> Empty, board |-> b]
    ELSE [ok |-> TRUE,
          piece |-> b.pieces[target[1]][target[2]],
          board |-> [b EXCEPT !.pieces[target[1]][target[2]] = Cross,
                              !.cross_position = target]]

\* make_move that reads the captured piece after the marker was placed.
make_move_reads_late(b, player, target) ==
    IF ~contains(get_valid_moves(b, player), target)
    THEN [ok |-> FALSE, piece |-> Empty, board |-> b]
    ELSE [ok |-> TRUE,
          piece |-> Cross,
          board |-> [b EXCEPT
                       !.pieces = [[@ EXCEPT ![b.cross_position[1]][b.cross_position[2]] = Empty]
                                      EXCEPT ![target[1]][target[2]] = Cross],
                       !.cross_position = target]]

\* make_move that checks the line and the bounds but not that a tile is there.
make_move_line_only(b, player, target) ==
    IF ~(/\ in_bounds(b, target[1], target[2])
         /\ target # b.cross_position
         /\ IF direction(player) = "Horizontal"
            THEN target[1] = b.cross_position[1]
            ELSE target[2] = b.cross_position[2])
    THEN [ok |-> FALSE, piece |-> Empty, board |-> b]
    ELSE [ok |-> TRUE,
          piece |-> b.pieces[target[1]][target[2]],
          board |-> [b EXCEPT
                       !.pieces = [[@ EXCEPT ![b.cross_position[1]][b.cross_position[2]] = Empty]
                                      EXCEPT ![target[1]][target[2]] = Cross],
                       !.cross_position = target]]

\* make_move that puts a tile back on the cell the marker leaves.
make_move_restores_tile(b, player, target) ==
    IF ~contains(get_valid_moves(b, player), target)
    THEN [ok |-> FALSE, piece |-> Empty, board |-> b]
    ELSE [ok |-> TRUE,
          piece |-> b.pieces[target[1]][target[2]],
          board |-> [b EXCEPT
                       !.pieces = [[@ EXCEPT ![b.cross_position[1]][b.cross_position[2]] =
                                               b.pieces[target[1]][target[2]]]
                                      EXCEPT ![target[1]][target[2]] = Cross],
                       !.cross_position = target]]

\* make_move that also clears the cells the marker passes over.
make_move_sweeps(b, player, target) ==
    IF ~contains(get_valid_moves(b, player), target)
    THEN [ok |-> FALSE, piece |-> Empty, board |-> b]
    ELSE LET from == b.cross_position
             passed(r, c) ==
                 \/ (r = from[1] /\ r = target[1] /\
                       ((from[2] < c /\ c < target[2]) \/ (target[2] < c /\ c < from[2])))
                 \/ (c = from[2] /\ c = target[2] /\
                       ((from[1] < r /\ r < target[1]) \/ (target[1] < r /\ r < from[1])))
         IN  [ok |-> TRUE,
              piece |-> b.pieces[target[1]][target[2]],
              board |-> [b EXCEPT
                           !.pieces = [r \in DOMAIN @ |-> [c \in DOMAIN @[r] |->
                                         IF <<r, c>> = target THEN Cross
                                         ELSE IF <<r, c>> = from \/ passed(r, c) THEN Empty
                                         ELSE @[r][c]]],
                           !.cross_position = target]]

\* Result of Board::make_move: ok = FALSE is Err("Invalid move to ..."), and
\* then the board is returned as it was.
make_move(b, player, target) ==
    IF ~contains(get_valid_moves(b, player), target)
    THEN [ok |-> FALSE, piece |-> Empty, board |-> b]
    ELSE [ok |-> TRUE,
          piece |-> b.pieces[target[1]][target[2]],
          board |-> [b EXCEPT
                       !.pieces = [[@ EXCEPT ![b.cross_position[1]][b.cross_position[2]] = Empty]
                                      EXCEPT ![target[1]][target[2]] = Cross],
                       !.cross_position = target]]

\* is_game_over that forgets that the marker is not a tile.
is_game_over_counts_cross(b) ==
    \A rc \in Cells(b.size) : ~(b.pieces[rc[1]][rc[2]] # Empty)

is_game_over(b) ==
    \A rc \in Cells(b.size) :
        ~(b.pieces[rc[1]][rc[2]] # Empty /\ b.pieces[rc[1]][rc[2]] # Cross)

\* ------------------------------------ tests/integration_tests.rs: scenario
\* Values a scripted scenario writes with set_piece.
ScenarioValues == {0 - 5, 5}

\* Offsets from the marker of the cells a scripted scenario may fill.
ScenarioOffsets == {<<0, 1>>, <<1, 1>>, <<1, 0>>}

\* What a scenario writes at each offset; like the test, it always puts a tile
\* in the marker's row, at offset (0, 1).
Placements ==
    {pl \in [ScenarioOffsets -> {Empty} \cup {Number(v) : v \in ScenarioValues}] :
        pl[<<0, 1>>] # Empty}

RECURSIVE clear_all(_, _)
\* for every cell other than cross_pos: set_piece(row, col, Empty)
clear_all(b, todo) ==
    IF todo = {} THEN b
    ELSE LET rc == CHOOSE x \in todo : TRUE
         IN  clear_all(IF rc # b.cross_position
                       THEN set_piece(b, rc[1], rc[2], Empty) ELSE b,
                       todo \ {rc})

RECURSIVE place_all(_, _, _, _)
place_all(b, cross_pos, placement, todo) ==
    IF todo = {} THEN b
    ELSE LET o == CHOOSE x \in todo : TRUE
             row == (cross_pos[1] + o[1]) % dimensions(b.size)[1]
             col == (cross_pos[2] + o[2]) % dimensions(b.size)[2]
         IN  place_all(set_piece(b, row, col, placement[o]),
                       cross_pos, placement, todo \ {o})

\* A board prepared as test_game_round_completion prepares it: a fresh board,
\* everything but the marker cleared, then tiles written near the marker.
scenario_board(size, k, placement) ==
    LET fresh == new_board(size, k)
    IN  place_all(clear_all(fresh, Cells(size)), fresh.cross_position,
                  placement, ScenarioOffsets)


\* --------------------------------------------------- game.rs: PlayerScore
new_score == [pieces |-> <<>>, total |-> 0]

\* add_piece that assigns the value instead of adding it.
add_piece_assigns(score, piece) ==
    [pieces |-> Append(score.pieces, piece),
     total  |-> IF piece.t = "Number" THEN piece.v ELSE score.total]

\* add_piece that adds the magnitude of the value.
add_piece_absolute(score, piece) ==
    [pieces |-> Append(score.pieces, piece),
     total  |-> IF piece.t = "Number"
                THEN score.total + (IF piece.v < 0 THEN 0 - piece.v ELSE piece.v)
                ELSE score.total]

add_piece(score, piece) ==
    [pieces |-> Append(score.pieces, piece),
     total  |-> IF piece.t = "Number" THEN score.total + piece.v ELSE score.total]

\* --------------------------------------------------- game.rs: GameSession
VARIABLES
    board,           \* Board: size, pieces, cross_position
    current_player,
    scores,          \* HashMap<Player, PlayerScore> of the round
    round,
    total_scores,    \* HashMap<Player, i32> over the finished rounds
    game_mode,
    players,         \* Vec<Player>, the active players
    moves,           \* successful moves made in this session
    last,            \* the last call: the operation and whether it returned Ok
    listeners,       \* Vec of listeners: what each received in the last emitting call
    emitted,         \* the events the last emitting call passed to notify, in order
    delivered        \* the on_event calls of the last emitting call, in order:
                     \* <<index of the listener in the Vec, event>>

vars == <<board, current_player, scores, round, total_scores, game_mode,
          players, moves, last, listeners, emitted, delivered>>

Range(seq) == {seq[i] : i \in 1..Len(seq)}

\* The GameSession value held by the variables.
session ==
    [board |-> board, current_player |-> current_player, scores |-> scores,
     round |-> round, total_scores |-> total_scores, game_mode |-> game_mode,
     players |-> players]

\* new_with_board that opens a score for all four players in every mode.
new_with_board_four_scores(b, mode) ==
    [board |-> b,
     current_player |-> "First",
     scores |-> [p \in Players |-> new_score],
     round |-> 1,
     total_scores |-> [p \in Players |-> 0],
     game_mode |-> mode,
     players |-> get_players(mode)]

\* GameSession::new_with_board(board, game_mode); GameSession::new builds the
\* same value around Board::new(size).
new_with_board(b, mode) ==
    [board |-> b,
     current_player |-> "First",
     scores |-> [p \in Range(get_players(mode)) |-> new_score],
     round |-> 1,
     total_scores |-> [p \in Range(get_players(mode)) |-> 0],
     game_mode |-> mode,
     players |-> get_players(mode)]

\* process_move that passes the turn on even when the move was rejected.
process_move_always_advances(s, target) ==
    LET result == make_move(s.board, s.current_player, target)
    IN  [ok |-> result.ok,
         session |->
           [s EXCEPT
              !.board = result.board,
              !.scores = IF result.ok /\ result.piece.t = "Number"
                         THEN [@ EXCEPT ![s.current_player] =
                                 add_piece(@, result.piece)]
                         ELSE @,
              !.current_player = next_for_mode(s.current_player, s.game_mode)]]

\* GameSession::process_move(target): ok = FALSE is the propagated Err.
\* process_move that passes the turn with the four-way next().
process_move_raw_next(s, target) ==
    LET result == make_move(s.board, s.current_player, target)
    IN  IF result.ok
        THEN [ok |-> TRUE,
              session |->
                [s EXCEPT
                   !.board = result.board,
                   !.scores = IF result.piece.t = "Number"
                              THEN [@ EXCEPT ![s.current_player] =
                                      add_piece(@, result.piece)]
                              ELSE @,
                   !.current_player = next(s.current_player)]]
        ELSE [ok |-> FALSE, session |-> s]

process_move(s, target) ==
    LET result == make_move(s.board, s.current_player, target)
    IN  IF result.ok
        THEN [ok |-> TRUE,
              session |->
                [s EXCEPT
                   !.board = result.board,
                   !.scores = IF result.piece.t = "Number"
                              THEN [@ EXCEPT ![s.current_player] =
                                      add_piece(@, result.piece)]
                              ELSE @,
                   !.current_player = next_for_mode(s.current_player, s.game_mode)]]
        ELSE [ok |-> FALSE, session |-> s]

is_round_over(s) == is_game_over(s.board)

RECURSIVE winner_scan_sticky_tie(_, _, _, _, _, _)
\* The winner loop without "is_tie = false" when a new maximum is found.
winner_scan_sticky_tie(ps, totals, i, highest, winner, is_tie) ==
    IF i > Len(ps) THEN (IF is_tie THEN "None" ELSE winner)
    ELSE IF totals[ps[i]] > highest
         THEN winner_scan_sticky_tie(ps, totals, i + 1, totals[ps[i]], ps[i], is_tie)
         ELSE IF totals[ps[i]] = highest
              THEN winner_scan_sticky_tie(ps, totals, i + 1, highest, winner, TRUE)
              ELSE winner_scan_sticky_tie(ps, totals, i + 1, highest, winner, is_tie)

RECURSIVE winner_scan(_, _, _, _, _, _)
\* The loop of get_round_winner / get_overall_winner over players[i..].
winner_scan(ps, totals, i, highest, winner, is_tie) ==
    IF i > Len(ps) THEN (IF is_tie THEN "None" ELSE winner)
    ELSE IF totals[ps[i]] > highest
         THEN winner_scan(ps, totals, i + 1, totals[ps[i]], ps[i], FALSE)
         ELSE IF totals[ps[i]] = highest
              THEN winner_scan(ps, totals, i + 1, highest, winner, TRUE)
              ELSE winner_scan(ps, totals, i + 1, highest, winner, is_tie)

I32Min == (0 - 2147483647) - 1

get_round_winner(s) ==
    IF ~is_round_over(s) THEN "None"
    ELSE winner_scan(s.players, [p \in DOMAIN s.scores |-> s.scores[p].total],
                     1, I32Min, "None", FALSE)

get_overall_winner_round_scores(s) ==
    winner_scan(s.players, [p \in DOMAIN s.scores |-> s.scores[p].total],
                1, I32Min, "None", FALSE)

get_overall_winner(s) ==
    winner_scan(s.players, s.total_scores, 1, I32Min, "None", FALSE)

\* start_next_round with the round scores reset before they are folded in.
start_next_round_resets_first(s, k) ==
    [s EXCEPT
       !.board = new_board(s.board.size, k),
       !.scores = [p \in DOMAIN @ |->
                     IF p \in Range(s.players) THEN new_score ELSE @[p]],
       !.round = @ + 1,
       !.current_player = IF s.round + 1 > 1
                          THEN s.players[((s.round + 1 - 1) % Len(s.players)) + 1]
                          ELSE @]

\* start_next_round with the starter indexed by the new round number.
start_next_round_index_by_round(s, k) ==
    [s EXCEPT
       !.total_scores = [p \in DOMAIN @ |->
                           IF p \in Range(s.players)
                           THEN @[p] + s.scores[p].total ELSE @[p]],
       !.board = new_board(s.board.size, k),
       !.scores = [p \in DOMAIN @ |->
                     IF p \in Range(s.players) THEN new_score ELSE @[p]],
       !.round = @ + 1,
       !.current_player = IF s.round + 1 > 1
                          THEN s.players[((s.round + 1) % Len(s.players)) + 1]
                          ELSE @]

\* GameSession::start_next_round() when Board::new shuffles to rotation k.
start_next_round(s, k) ==
    [s EXCEPT
       !.total_scores = [p \in DOMAIN @ |->
                           IF p \in Range(s.players)
                           THEN @[p] + s.scores[p].total ELSE @[p]],
       !.board = new_board(s.board.size, k),
       !.scores = [p \in DOMAIN @ |->
                     IF p \in Range(s.players) THEN new_score ELSE @[p]],
       !.round = @ + 1,
       !.current_player = IF s.round + 1 > 1
                          THEN s.players[((s.round + 1 - 1) % Len(s.players)) + 1]
                          ELSE @]

\* ------------------------------------------------------------ the machine
\* Every cell, one index past each edge, and the far coordinates of the tests.
FarTargets == {<<5, 5>>, <<10, 10>>}

Targets(size) ==
    ((0..dimensions(size)[1]) \X (0..dimensions(size)[2])) \cup FarTargets

\* Coordinates a caller passes to process_move: the cells of the current
\* player's line through the marker (the marker's own cell included) and the
\* far coordinate (10, 10) of test_invalid_moves.
Probes(b, player) ==
    {t \in Cells(b.size) :
        IF direction(player) = "Horizontal"
        THEN t[1] = b.cross_position[1]
        ELSE t[2] = b.cross_position[2]}
    \cup {<<10, 10>>}

Holds(s) ==
    /\ board = s.board
    /\ current_player = s.current_player
    /\ scores = s.scores
    /\ round = s.round
    /\ total_scores = s.total_scores
    /\ game_mode = s.game_mode
    /\ players = s.players

Becomes(s) ==
    /\ board' = s.board
    /\ current_player' = s.current_player
    /\ scores' = s.scores
    /\ round' = s.round
    /\ total_scores' = s.total_scores
    /\ game_mode' = s.game_mode
    /\ players' = s.players

\* GameSession::new(size, game_mode)
New ==
    \E size \in PlayedSizes, mode \in GameModes, k \in 0..(MaxShift - 1) :
        /\ Holds(new_with_board(new_board(size, k), mode))
        /\ last = [op |-> "new", ok |-> TRUE]

\* GameSession::new_with_board(board, game_mode) on a scenario board
NewWithBoard ==
    \E size \in PlayedSizes, mode \in GameModes, k \in 0..(MaxShift - 1),
       placement \in Placements :
        /\ Holds(new_with_board(scenario_board(size, k, placement), mode))
        /\ last = [op |-> "new_with_board", ok |-> TRUE]

\* A session on its own: no listener, nothing emitted.
Init ==
    /\ moves = 0
    /\ (New \/ NewWithBoard)
    /\ listeners = <<>>
    /\ emitted = <<>>
    /\ delivered = <<>>

ProcessMove(target) ==
    LET r == process_move(session, target)
    IN  /\ r.ok => moves < MaxMoves
        /\ moves' = IF r.ok THEN moves + 1 ELSE moves
        /\ Becomes(r.session)
        /\ last' = [op |-> "process_move", ok |-> r.ok]
        /\ UNCHANGED <<listeners, emitted, delivered>>

StartNextRound ==
    /\ round < MaxRound
    /\ \E k \in 0..(MaxShift - 1) : Becomes(start_next_round(session, k))
    /\ last' = [op |-> "start_next_round", ok |-> TRUE]
    /\ UNCHANGED <<moves, listeners, emitted, delivered>>

Next ==
    \/ \E target \in Probes(board, current_player) : ProcessMove(target)
    \/ StartNextRound

Spec == Init /\ [][Next]_vars

\* ------------------------------------------------------------ Board
MaxBoardMoves == 2

\* A session on a fresh board of either size.
BoardInit ==
    /\ moves = 0
    /\ \E size \in Sizes, mode \in GameModes, k \in 0..(MaxShift - 1) :
          Holds(new_with_board(new_board(size, k), mode))
    /\ last = [op |-> "new", ok |-> TRUE]
    /\ listeners = <<>>
    /\ emitted = <<>>
    /\ delivered = <<>>

BoardMove(target) ==
    /\ moves < MaxBoardMoves
    /\ ProcessMove(target)

NextBoard ==
    \/ \E target \in Probes(board, current_player) : BoardMove(target)
    \/ StartNextRound

SpecBoard == BoardInit /\ [][NextBoard]_vars

\* ------------------------------------------------------------ GameManager
MaxListeners == 2

MaxManagerMoves == 2

MaxManagerShift == 1

\* GameEvent
GameStarted == [kind |-> "GameStarted"]

RoundStarted(n) == [kind |-> "RoundStarted", round |-> n]

MoveMade(player, target, piece) ==
    [kind |-> "MoveMade", player |-> player, target |-> target, piece |-> piece]

InvalidMove(player, target, reason) ==
    [kind |-> "InvalidMove", player |-> player, target |-> target,
     reason |-> reason]

RoundEnded(winner, round_scores) ==
    [kind |-> "RoundEnded", winner |-> winner, scores |-> round_scores]

GameEnded(winner, totals) ==
    [kind |-> "GameEnded", winner |-> winner, totals |-> totals]

\* The Err value of Board::make_move: format!("Invalid move to {:?}", target)
invalid_move_error(target) == <<"Invalid move to ", target>>

\* The GameManager value held by the variables.
manager ==
    [session |-> session, listeners |-> listeners, emitted |-> emitted,
     delivered |-> delivered]

\* A public emitting operation starts: what the previous call emitted is past.
enter(m) ==
    [m EXCEPT !.listeners = [i \in DOMAIN @ |-> <<>>], !.emitted = <<>>,
              !.delivered = <<>>]

\* notify that skips the first registered listener.
notify_skips_first(m, event) ==
    [m EXCEPT
       !.listeners = [i \in DOMAIN @ |-> IF i = 1 THEN @[i] ELSE Append(@[i], event)],
       !.emitted = Append(@, event),
       !.delivered = @ \o [i \in 1..(Len(m.listeners) - 1) |-> <<i + 1, event>>]]

\* notify that walks the listeners from the last registered to the first.
notify_last_first(m, event) ==
    [m EXCEPT
       !.listeners = [i \in DOMAIN @ |-> Append(@[i], event)],
       !.emitted = Append(@, event),
       !.delivered = @ \o [i \in 1..Len(m.listeners) |->
                              <<Len(m.listeners) + 1 - i, event>>]]

\* GameManager::notify: for listener in &mut self.listeners, in Vec order,
\* on_event(event.clone()).
notify(m, event) ==
    [m EXCEPT
       !.listeners = [i \in DOMAIN @ |-> Append(@[i], event)],
       !.emitted = Append(@, event),
       !.delivered = @ \o [i \in 1..Len(m.listeners) |-> <<i, event>>]]

\* add_listener that replays to the newcomer what was emitted last.
add_listener_replays(m) == [m EXCEPT !.listeners = Append(@, m.emitted)]

\* GameManager::add_listener
add_listener(m) == [m EXCEPT !.listeners = Append(@, <<>>)]

\* start_game that restarts the round count.
start_game_resets_round(m) ==
    LET m1 == [enter(m) EXCEPT !.session.round = 1]
    IN  notify(notify(m1, GameStarted), RoundStarted(m1.session.round))

\* GameManager::start_game
start_game(m) ==
    notify(notify(enter(m), GameStarted), RoundStarted(m.session.round))

\* GameManager::make_move that reports the player to move after the call.
manager_make_move_reports_next(m, target) ==
    LET r  == process_move(m.session, target)
        m1 == [enter(m) EXCEPT !.session = r.session]
        current_player_ == r.session.current_player
    IN  IF r.ok
        THEN LET pieces == r.session.scores[m.session.current_player].pieces
                 last_piece == IF Len(pieces) > 0 THEN pieces[Len(pieces)] ELSE Empty
                 m2 == notify(m1, MoveMade(current_player_, target, last_piece))
             IN  IF is_round_over(m2.session)
                 THEN notify(m2, RoundEnded(get_round_winner(m2.session),
                                  [p \in DOMAIN m2.session.scores |->
                                      m2.session.scores[p].total]))
                 ELSE m2
        ELSE notify(m1, InvalidMove(current_player_, target, invalid_move_error(target)))

\* GameManager::make_move that emits RoundEnded after every successful move.
manager_make_move_always_ends(m, target) ==
    LET current_player_ == m.session.current_player
        r  == process_move(m.session, target)
        m1 == [enter(m) EXCEPT !.session = r.session]
    IN  IF r.ok
        THEN LET pieces == r.session.scores[current_player_].pieces
                 last_piece == IF Len(pieces) > 0 THEN pieces[Len(pieces)] ELSE Empty
                 m2 == notify(m1, MoveMade(current_player_, target, last_piece))
             IN  notify(m2, RoundEnded(get_round_winner(m2.session),
                             [p \in DOMAIN m2.session.scores |->
                                 m2.session.scores[p].total]))
        ELSE notify(m1, InvalidMove(current_player_, target, invalid_move_error(target)))

\* GameManager::make_move that reports a rejected move as a move as well.
manager_make_move_reports_both(m, target) ==
    LET current_player_ == m.session.current_player
        r  == process_move(m.session, target)
        m1 == [enter(m) EXCEPT !.session = r.session]
    IN  IF r.ok
        THEN LET pieces == r.session.scores[current_player_].pieces
                 last_piece == IF Len(pieces) > 0 THEN pieces[Len(pieces)] ELSE Empty
                 m2 == notify(m1, MoveMade(current_player_, target, last_piece))
             IN  IF is_round_over(m2.session)
                 THEN notify(m2, RoundEnded(get_round_winner(m2.session),
                                  [p \in DOMAIN m2.session.scores |->
                                      m2.session.scores[p].total]))
                 ELSE m2
        ELSE notify(notify(m1, MoveMade(current_player_, target, Empty)),
                    InvalidMove(current_player_, target, invalid_move_error(target)))

\* GameManager::make_move that passes the turn on a rejected move.
manager_make_move_skips_turn(m, target) ==
    LET current_player_ == m.session.current_player
        r  == process_move(m.session, target)
        m1 == [enter(m) EXCEPT !.session = r.session]
    IN  IF r.ok
        THEN LET pieces == r.session.scores[current_player_].pieces
                 last_piece == IF Len(pieces) > 0 THEN pieces[Len(pieces)] ELSE Empty
                 m2 == notify(m1, MoveMade(current_player_, target, last_piece))
             IN  IF is_round_over(m2.session)
                 THEN notify(m2, RoundEnded(get_round_winner(m2.session),
                                  [p \in DOMAIN m2.session.scores |->
                                      m2.session.scores[p].total]))
                 ELSE m2
        ELSE notify([m1 EXCEPT !.session.current_player =
                                  next_for_mode(@, m.session.game_mode)],
                    InvalidMove(current_player_, target, invalid_move_error(target)))

\* GameManager::make_move that ends the game when it ends the round.
manager_make_move_ends_game(m, target) ==
    LET current_player_ == m.session.current_player
        r  == process_move(m.session, target)
        m1 == [enter(m) EXCEPT !.session = r.session]
    IN  IF r.ok
        THEN LET pieces == r.session.scores[current_player_].pieces
                 last_piece == IF Len(pieces) > 0 THEN pieces[Len(pieces)] ELSE Empty
                 m2 == notify(m1, MoveMade(current_player_, target, last_piece))
             IN  IF is_round_over(m2.session)
                 THEN notify(notify(m2, RoundEnded(get_round_winner(m2.session),
                                  [p \in DOMAIN m2.session.scores |->
                                      m2.session.scores[p].total])),
                             GameEnded(get_overall_winner(m2.session),
                                       m2.session.total_scores))
                 ELSE m2
        ELSE notify(m1, InvalidMove(current_player_, target, invalid_move_error(target)))

\* GameManager::make_move that announces the end of the round again when a
\* move is rejected on a finished round.
manager_make_move_repeats_round_end(m, target) ==
    LET current_player_ == m.session.current_player
        r  == process_move(m.session, target)
        m1 == [enter(m) EXCEPT !.session = r.session]
        ended(mm) == notify(mm, RoundEnded(get_round_winner(mm.session),
                                  [p \in DOMAIN mm.session.scores |->
                                      mm.session.scores[p].total]))
    IN  IF r.ok
        THEN LET pieces == r.session.scores[current_player_].pieces
                 last_piece == IF Len(pieces) > 0 THEN pieces[Len(pieces)] ELSE Empty
                 m2 == notify(m1, MoveMade(current_player_, target, last_piece))
             IN  IF is_round_over(m2.session) THEN ended(m2) ELSE m2
        ELSE LET m2 == notify(m1, InvalidMove(current_player_, target,
                                              invalid_move_error(target)))
             IN  IF is_round_over(m2.session) THEN ended(m2) ELSE m2

\* GameManager::make_move
manager_make_move(m, target) ==
    LET current_player_ == m.session.current_player
        r  == process_move(m.session, target)
        m1 == [enter(m) EXCEPT !.session = r.session]
    IN  IF r.ok
        THEN LET pieces == r.session.scores[current_player_].pieces
                 last_piece == IF Len(pieces) > 0 THEN pieces[Len(pieces)] ELSE Empty
                 m2 == notify(m1, MoveMade(current_player_, target, last_piece))
             IN  IF is_round_over(m2.session)
                 THEN notify(m2, RoundEnded(get_round_winner(m2.session),
                                  [p \in DOMAIN m2.session.scores |->
                                      m2.session.scores[p].total]))
                 ELSE m2
        ELSE notify(m1, InvalidMove(current_player_, target, invalid_move_error(target)))

\* GameManager::start_next_round that notifies before it updates the session.
manager_start_next_round_notifies_first(m, k) ==
    LET m1 == notify(enter(m), RoundStarted(m.session.round))
    IN  [m1 EXCEPT !.session = start_next_round(@, k)]

\* GameManager::start_next_round when Board::new shuffles to rotation k.
manager_start_next_round(m, k) ==
    LET m1 == [enter(m) EXCEPT !.session = start_next_round(@, k)]
    IN  notify(m1, RoundStarted(m1.session.round))

\* end_game that closes the round: the round totals are folded in first.
end_game_closes_round(m) ==
    LET m1 == [enter(m) EXCEPT
                 !.session.total_scores =
                     [p \in DOMAIN @ |-> @[p] + m.session.scores[p].total]]
    IN  notify(m1, GameEnded(get_overall_winner(m1.session),
                             m1.session.total_scores))

\* GameManager::end_game
end_game(m) ==
    notify(enter(m), GameEnded(get_overall_winner(m.session),
                               m.session.total_scores))

\* Coordinates a caller passes to GameManager::make_move: the first and the
\* last valid destination (the tests take valid_moves[0]), the marker's own
\* cell and the far coordinate (10, 10).
ManagerProbes(b, player) ==
    LET valid_moves == get_valid_moves(b, player)
    IN  (IF Len(valid_moves) > 0
         THEN {valid_moves[1], valid_moves[Len(valid_moves)]} ELSE {})
        \cup {b.cross_position, <<10, 10>>}

\* Scenario boards handed to GameManager::new_with_board: a tile beside the
\* marker in its row and possibly one below that tile.
ManagerPlacements == {pl \in Placements : pl[<<1, 0>>] = Empty}

\* GameManager::new(size, game_mode)
ManagerNew ==
    \E size \in PlayedSizes, mode \in GameModes, k \in 0..(MaxManagerShift - 1) :
        /\ Holds(new_with_board(new_board(size, k), mode))
        /\ last = [op |-> "new", ok |-> TRUE]

\* GameManager::new_with_board(board, game_mode) on a scenario board
ManagerNewWithBoard ==
    \E size \in PlayedSizes, mode \in GameModes, k \in 0..(MaxManagerShift - 1),
       placement \in ManagerPlacements :
        /\ Holds(new_with_board(scenario_board(size, k, placement), mode))
        /\ last = [op |-> "new_with_board", ok |-> TRUE]

\* GameManager::new / new_with_board: the session and no listener.
ManagerInit ==
    /\ moves = 0
    /\ (ManagerNew \/ ManagerNewWithBoard)
    /\ listeners = <<>>
    /\ emitted = <<>>
    /\ delivered = <<>>

ManagerBecomes(m) ==
    /\ Becomes(m.session)
    /\ listeners' = m.listeners
    /\ emitted' = m.emitted
    /\ delivered' = m.delivered

AddListener ==
    /\ Len(listeners) < MaxListeners
    /\ ManagerBecomes(add_listener(manager))
    /\ last' = [op |-> "add_listener", ok |-> TRUE]
    /\ UNCHANGED moves

StartGame ==
    /\ ManagerBecomes(start_game(manager))
    /\ last' = [op |-> "start_game", ok |-> TRUE]
    /\ UNCHANGED moves

MakeMove(target) ==
    LET r == process_move(session, target)
    IN  /\ r.ok => moves < MaxManagerMoves
        /\ moves' = IF r.ok THEN moves + 1 ELSE moves
        /\ ManagerBecomes(manager_make_move(manager, target))
        /\ last' = [op |-> "make_move", ok |-> r.ok]

ManagerStartNextRound ==
    /\ round < MaxRound
    /\ \E k \in 0..(MaxManagerShift - 1) :
          ManagerBecomes(manager_start_next_round(manager, k))
    /\ last' = [op |-> "manager_start_next_round", ok |-> TRUE]
    /\ UNCHANGED moves

EndGame ==
    /\ ManagerBecomes(end_game(manager))
    /\ last' = [op |-> "end_game", ok |-> TRUE]
    /\ UNCHANGED moves

NextManager ==
    \/ AddListener
    \/ StartGame
    \/ \E target \in ManagerProbes(board, current_player) : MakeMove(target)
    \/ ManagerStartNextRound
    \/ EndGame

SpecManager == ManagerInit /\ [][NextManager]_vars


\* ------------------------------------------------------------- properties
piece_at(b, rc) == b.pieces[rc[1]][rc[2]]

CrossCells(b) == {rc \in Cells(b.size) : piece_at(b, rc) = Cross}

NumberCells(b) == {rc \in Cells(b.size) : piece_at(b, rc).t = "Number"}

EmptyCells(b) == {rc \in Cells(b.size) : piece_at(b, rc) = Empty}

Active == Range(players)

\* C1: in every reachable state exactly one cell of the grid holds Cross and
\* cross_position is the coordinate of that cell.
C1_OneCross ==
    /\ Cardinality(CrossCells(board)) = 1
    /\ CrossCells(board) = {board.cross_position}

\* C1 witness: the marker has moved twice and a later round has a new board.
C1_Witness ==
    /\ moves >= 2
    /\ last.op = "start_next_round"

\* C2: a successful make_move(player, target) returns the piece that was at
\* target, leaves Cross at target and Empty at the marker's previous cell, sets
\* cross_position to target and leaves every other cell unchanged.
C2_MoveEffect ==
    \A p \in Players :
        \A t \in Range(get_valid_moves(board, p)) :
            LET r == make_move(board, p, t)
            IN  /\ r.ok
                /\ r.piece = piece_at(board, t)
                /\ piece_at(r.board, t) = Cross
                /\ piece_at(r.board, board.cross_position) = Empty
                /\ r.board.cross_position = t
                /\ r.board.size = board.size
                /\ \A rc \in Cells(board.size) \ {t, board.cross_position} :
                      piece_at(r.board, rc) = piece_at(board, rc)

\* C2 witness: a move has just succeeded on a board that already had an Empty
\* cell, and a further move is possible.
C2_Witness ==
    /\ last.op = "process_move" /\ last.ok
    /\ Cardinality(EmptyCells(board)) >= 2
    /\ get_valid_moves(board, current_player) # <<>>

OffLine(b, p, t) ==
    IF p \in {"First", "Third"}
    THEN t[1] # b.cross_position[1]
    ELSE t[2] # b.cross_position[2]

\* C3: make_move(player, target) succeeds iff target is in
\* get_valid_moves(player); it returns the error, and leaves the board alone,
\* for every target off the player's line, for the marker's own cell, for
\* every out-of-bounds coordinate and for every cell that is already Empty.
C3_MoveValidity ==
    \A p \in Players :
        LET valid == Range(get_valid_moves(board, p))
        IN  \A t \in Targets(board.size) :
                LET r == make_move(board, p, t)
                IN  /\ r.ok <=> t \in valid
                    /\ (\/ OffLine(board, p, t)
                        \/ t = board.cross_position
                        \/ t \notin Cells(board.size)
                        \/ piece_at(board, t) = Empty)
                       => (~r.ok /\ r.board = board)

\* C3 witness: process_move has rejected a coordinate, and the current player's
\* line holds an Empty cell as well as a valid destination.
C3_Witness ==
    /\ last.op = "process_move" /\ ~last.ok
    /\ \E t \in EmptyCells(board) : ~OffLine(board, current_player, t)
    /\ get_valid_moves(board, current_player) # <<>>

\* C4: process_move(target) with a target that is not a valid destination of
\* the current player returns an error and leaves the board, the current
\* player, every round score and capture history, the cumulative totals and
\* the round counter unchanged.
C4_RejectedMoveFrame ==
    \A t \in Targets(board.size) :
        t \notin Range(get_valid_moves(board, current_player)) =>
            LET r == process_move(session, t)
            IN  /\ ~r.ok
                /\ r.session.board.pieces = board.pieces
                /\ r.session.board.cross_position = board.cross_position
                /\ r.session.current_player = current_player
                /\ r.session.scores = scores
                /\ r.session.total_scores = total_scores
                /\ r.session.round = round

\* C4 witness: a move has just been rejected in a second round in which a
\* capture has been made.
C4_Witness ==
    /\ last.op = "process_move" /\ ~last.ok
    /\ round = 2
    /\ \E p \in Active : scores[p].pieces # <<>>

\* C5: for every player, get_valid_moves(player) is exactly the set of cells
\* that are not Empty, are not the marker's cell, and lie in the marker's row
\* (First, Third) or in the marker's column (Second, Fourth).
C5_ValidMovesSet ==
    \A p \in Players :
        Range(get_valid_moves(board, p)) =
            {rc \in Cells(board.size) :
                /\ piece_at(board, rc) # Empty
                /\ rc # board.cross_position
                /\ (p \in {"First", "Third"} => rc[1] = board.cross_position[1])
                /\ (p \in {"Second", "Fourth"} => rc[2] = board.cross_position[2])}

\* C5 witness: after a move, the marker's row and its column each hold an Empty
\* cell and a tile.
C5_Witness ==
    /\ last.op = "process_move" /\ last.ok
    /\ \A p \in {"First", "Second"} :
        /\ get_valid_moves(board, p) # <<>>
        /\ \E t \in EmptyCells(board) : ~OffLine(board, p, t)


\* The turn order the two modes prescribe.
Successor(mode, p) ==
    IF mode = "TwoPlayers"
    THEN CASE p = "First"  -> "Second"
           [] p = "Second" -> "First"
           [] OTHER        -> "nobody"
    ELSE CASE p = "First"  -> "Second"
           [] p = "Second" -> "Third"
           [] p = "Third"  -> "Fourth"
           [] p = "Fourth" -> "First"

RECURSIVE AfterMoves(_, _)
\* The sessions that n consecutive successful process_move calls lead to.
AfterMoves(s, n) ==
    IF n = 0 THEN {s}
    ELSE UNION {AfterMoves(process_move(s, t).session, n - 1) :
                  t \in Range(get_valid_moves(s.board, s.current_player))}

\* C6: after every successful process_move the current player is the successor
\* of the mover under the session's mode (TwoPlayers: First and Second
\* alternate; FourPlayers: First, Second, Third, Fourth, First), and in
\* FourPlayers mode four consecutive successful moves starting from First
\* return the turn to First.
C6_TurnRotation ==
    /\ \A t \in Range(get_valid_moves(board, current_player)) :
          LET r == process_move(session, t)
          IN  /\ r.ok
              /\ r.session.current_player = Successor(game_mode, current_player)
    /\ (game_mode = "FourPlayers" /\ current_player = "First") =>
          \A s \in AfterMoves(session, 4) : s.current_player = "First"

\* C6 witness: three moves of a FourPlayers round have passed the turn from
\* First to Fourth, and Fourth can move.
C6_Witness ==
    /\ game_mode = "FourPlayers" /\ round = 1 /\ moves = 3
    /\ last.op = "process_move" /\ last.ok
    /\ current_player = "Fourth"
    /\ get_valid_moves(board, current_player) # <<>>

\* C7: a successful process_move that captures Number(v) increases the mover's
\* round total by exactly v, appends Number(v) at the end of the mover's
\* capture history, and leaves every other player's round total and capture
\* history unchanged.
C7_CaptureScore ==
    \A t \in Range(get_valid_moves(board, current_player)) :
        LET r == process_move(session, t)
            captured == piece_at(board, t)
        IN  captured.t = "Number" =>
              /\ r.ok
              /\ r.session.scores[current_player].total
                   = scores[current_player].total + captured.v
              /\ r.session.scores[current_player].pieces
                   = scores[current_player].pieces \o <<Number(captured.v)>>
              /\ \A p \in Active \ {current_player} :
                    r.session.scores[p] = scores[p]

\* C7 witness: a player holds two different captured tiles after a move.
C7_Witness ==
    /\ last.op = "process_move" /\ last.ok
    /\ \E p \in Active :
        /\ Len(scores[p].pieces) = 2
        /\ scores[p].pieces[1] # scores[p].pieces[2]
        /\ scores[p].total = scores[p].pieces[1].v + scores[p].pieces[2].v

\* C8: is_round_over() is true iff no cell of the board holds a Number.
C8_RoundOverIffNoNumber ==
    is_round_over(session) <=> NumberCells(board) = {}

\* C8 witness: a move has captured the last tile, the board holds only the
\* marker and Empty cells.
C8_Witness ==
    /\ last.op = "process_move" /\ last.ok
    /\ is_round_over(session)
    /\ Cardinality(EmptyCells(board)) = Cardinality(Cells(board.size)) - 1

\* C9: in every reachable state of a round where is_round_over() is false,
\* the current player has at least one valid destination.
C9_AlwaysCanMove ==
    ~is_round_over(session) => get_valid_moves(board, current_player) # <<>>

Leader(p) ==
    /\ p \in Active
    /\ \A q \in Active \ {p} : scores[p].total > scores[q].total

\* C10: get_round_winner() is None whenever the round is not over; when the
\* round is over it is Some(p) iff p is the unique active player whose round
\* total is strictly greater than every other active player's, and None when
\* the maximum is shared.
C10_RoundWinner ==
    LET w == get_round_winner(session)
    IN  IF NumberCells(board) # {}
        THEN w = "None"
        ELSE /\ \A p \in Players : (w = p) <=> Leader(p)
             /\ (~ \E p \in Players : Leader(p)) => w = "None"

\* C10 witness: a FourPlayers round is over, it has a winner, and two of the
\* other players are level below the winner's total.
C10_Witness ==
    /\ last.op = "process_move" /\ last.ok
    /\ game_mode = "FourPlayers"
    /\ NumberCells(board) = {}
    /\ get_round_winner(session) # "None"
    /\ \E p, q \in Active \ {get_round_winner(session)} :
          p # q /\ scores[p].total = scores[q].total

\* ------------------------------------------------------------ C11
TotalLeader(p) ==
    /\ p \in Active
    /\ \A q \in Active \ {p} : total_scores[p] > total_scores[q]

\* C11: get_overall_winner() is Some(p) exactly when p is the one active
\* player whose cumulative total is strictly above every other active
\* player's, and None when the highest total is shared; this holds in every
\* state, whether or not the round is over and whatever the round scores are.
C11_OverallWinner ==
    LET w == get_overall_winner(session)
    IN  /\ \A p \in Players : (w = p) <=> TotalLeader(p)
        /\ (w = "None") <=> ~(\E p \in Active : TotalLeader(p))

\* A round in progress in which the leader on totals is not the player ahead
\* in the round.
C11_Witness ==
    /\ ~is_round_over(session)
    /\ \E p \in Active :
          /\ get_overall_winner(session) = p
          /\ \E q \in Active \ {p} : scores[q].total > scores[p].total

\* ------------------------------------------------------------ C12
FullBoard(b) ==
    /\ DOMAIN b.pieces = 0..(dimensions(b.size)[1] - 1)
    /\ \A r \in DOMAIN b.pieces :
          DOMAIN b.pieces[r] = 0..(dimensions(b.size)[2] - 1)
    /\ Cardinality(CrossCells(b)) = 1
    /\ EmptyCells(b) = {}
    /\ b.cross_position \in CrossCells(b)

\* C12: start_next_round() adds each active player's round total to that
\* player's cumulative total, increments the round counter by 1, installs a
\* full board of the same size (one Cross, no Empty cell), and resets each
\* active player's round total to 0 and capture history to empty.
C12_NextRoundEffect ==
    \A k \in 0..(MaxShift - 1) :
        LET n == start_next_round(session, k)
        IN  /\ \A p \in Active :
                  /\ n.total_scores[p] = total_scores[p] + scores[p].total
                  /\ n.scores[p].total = 0
                  /\ n.scores[p].pieces = <<>>
            /\ n.round = round + 1
            /\ n.board.size = board.size
            /\ FullBoard(n.board)
            /\ n.game_mode = game_mode
            /\ n.players = players

\* start_next_round has just run and carried a non-zero round total over.
C12_Witness ==
    /\ last.op = "start_next_round"
    /\ round = 2
    /\ \E p \in Active : total_scores[p] # 0
    /\ \A p \in Active : scores[p] = new_score
    /\ FullBoard(board)

\* ------------------------------------------------------------ C13
Starter(mode, r) ==
    IF mode = "TwoPlayers"
    THEN IF r % 2 = 0 THEN "Second" ELSE "First"
    ELSE CASE r % 4 = 1 -> "First"
           [] r % 4 = 2 -> "Second"
           [] r % 4 = 3 -> "Third"
           [] OTHER     -> "Fourth"

\* C13: a session starts round 1 with First to move, and the round r that
\* start_next_round() produces starts with active_players[(r-1) mod n],
\* whoever held the turn when the previous round was left.
C13_RoundStarter ==
    /\ last.op \in {"new", "new_with_board"} =>
          (round = 1 /\ current_player = "First")
    /\ \A k \in 0..(MaxShift - 1) :
          LET n == start_next_round(session, k)
          IN  /\ n.current_player = Starter(game_mode, n.round)
              /\ n.current_player =
                   players[((n.round - 1) % Len(players)) + 1]

\* Round 2 has just begun with Second to move although two moves were made
\* in round 1, after which the turn was not with Second.
C13_Witness ==
    /\ last.op = "start_next_round"
    /\ round = 2
    /\ moves = 2
    /\ current_player = "Second"

\* ------------------------------------------------------------ C14
\* C14: a new round begins only from a finished round: whenever the round
\* counter advances, the board being left holds no numbered tile.
C14_NextRoundOnlyWhenOver ==
    [][round' # round => NumberCells(board) = {}]_vars

\* ------------------------------------------------------------ C15
\* C15: when end_game is called on a finished round, GameEnded carries for
\* every active player the sum of the round totals of all rounds played, the
\* round just finished included, and the winner decided on those sums.
C15_GameEndedTotals ==
    is_round_over(session) =>
        LET e == end_game(manager).emitted[1]
            sums == [p \in Active |-> total_scores[p] + scores[p].total]
        IN  /\ e.kind = "GameEnded"
            /\ \A p \in Active : e.totals[p] = sums[p]
            /\ e.winner = winner_scan(players, sums, 1, I32Min, "None", FALSE)

\* ------------------------------------------------------------ C16
\* Coordinates over which the manager's make_move is examined in a state: the
\* current player's line through the marker and the far coordinates.
MoveInputs == Probes(board, current_player) \cup FarTargets

Kinds(events) == [i \in 1..Len(events) |-> events[i].kind]

Valid(target) == contains(get_valid_moves(board, current_player), target)

\* C16: a call of GameManager::make_move emits either one MoveMade, or one
\* MoveMade followed by one RoundEnded, or one InvalidMove, and nothing else.
C16_OneEventClass ==
    \A target \in MoveInputs :
        Kinds(manager_make_move(manager, target).emitted) \in
            {<<"MoveMade">>, <<"MoveMade", "RoundEnded">>, <<"InvalidMove">>}

\* Each of the three shapes has been emitted to a registered listener.
C16_Witness ==
    /\ last.op = "make_move"
    /\ Len(listeners) > 0
    /\ Kinds(emitted) = <<"MoveMade", "RoundEnded">>
    /\ \E target \in MoveInputs :
          Kinds(manager_make_move(manager, target).emitted) = <<"InvalidMove">>

\* ------------------------------------------------------------ C17
\* C17: a successful GameManager::make_move(target) emits first
\* MoveMade(player, target, piece) with player the player to move before the
\* call, the requested target, and the piece that stood at target before it.
C17_MoveMadePayload ==
    \A target \in MoveInputs :
        Valid(target) =>
            manager_make_move(manager, target).emitted[1] =
                MoveMade(current_player, target, piece_at(board, target))

\* The second move of a session has been reported: the mover is no longer
\* the player to move, the marker stands on the reported target and the
\* reported tile is the last one in the mover's captures.
C17_Witness ==
    /\ last.op = "make_move"
    /\ last.ok
    /\ emitted[1].kind = "MoveMade"
    /\ emitted[1].player # current_player
    /\ emitted[1].target = board.cross_position
    /\ emitted[1].piece.t = "Number"
    /\ moves = 2
    /\ LET pieces == scores[emitted[1].player].pieces
       IN  Len(pieces) > 0 /\ pieces[Len(pieces)] = emitted[1].piece

\* ------------------------------------------------------------ C18
\* C18: GameManager::make_move emits RoundEnded(winner, scores) exactly when
\* the move succeeded and no numbered tile is left after it; winner is
\* get_round_winner() of the resulting session and scores maps the active
\* players, and only them, to their round totals, the capture included.
C18_RoundEnded ==
    \A target \in MoveInputs :
        LET r == manager_make_move(manager, target)
            ended == \E i \in 1..Len(r.emitted) : r.emitted[i].kind = "RoundEnded"
        IN  /\ ended <=> (Valid(target) /\ NumberCells(r.session.board) = {})
            /\ ended =>
                  LET e == r.emitted[Len(r.emitted)]
                  IN  /\ e.kind = "RoundEnded"
                      /\ e.winner = get_round_winner(r.session)
                      /\ DOMAIN e.scores = Active
                      /\ \A p \in Active :
                            e.scores[p] =
                              IF p = current_player
                              THEN scores[p].total + piece_at(board, target).v
                              ELSE scores[p].total

\* The second move of a round took the last tile and won the round for
\* Second, whose total in the event includes that tile.
C18_Witness ==
    /\ last.op = "make_move"
    /\ Len(emitted) = 2
    /\ emitted[2].kind = "RoundEnded"
    /\ emitted[2].winner = "Second"
    /\ emitted[2].scores["Second"] = 5
    /\ emitted[2].scores["First"] # 0

\* ------------------------------------------------------------ C19
\* C19: GameManager::make_move on a target that is not valid emits exactly
\* one InvalidMove(p, target, reason), p the player to move, and leaves the
\* session as it was.
C19_InvalidMove ==
    \A target \in MoveInputs :
        ~Valid(target) =>
            LET r == manager_make_move(manager, target)
            IN  /\ r.emitted =
                     <<InvalidMove(current_player, target, invalid_move_error(target))>>
                /\ r.session = session

\* A move was rejected in a session that already has captures, and the
\* player named in the event is still the player to move.
C19_Witness ==
    /\ last.op = "make_move"
    /\ ~last.ok
    /\ moves > 0
    /\ Len(emitted) = 1
    /\ emitted[1].kind = "InvalidMove"
    /\ emitted[1].player = current_player
    /\ Len(listeners) > 0
    /\ \A i \in 1..Len(listeners) : listeners[i] = emitted

\* ------------------------------------------------------------ C20
\* C20 as stated: every call of start_game() emits GameStarted and then
\* RoundStarted(1) to every registered listener.
C20_StartGameRoundOne ==
    LET r == start_game(manager)
    IN  /\ r.emitted = <<GameStarted, RoundStarted(1)>>
        /\ \A i \in 1..Len(r.listeners) : r.listeners[i] = r.emitted

\* C20: every call of start_game() emits exactly two events, GameStarted and
\* then RoundStarted(n) with n the session's round counter at the call, to
\* every registered listener, and leaves the session as it was.
C20_StartGameCurrentRound ==
    LET r == start_game(manager)
    IN  /\ r.emitted = <<GameStarted, RoundStarted(round)>>
        /\ Len(r.listeners) = Len(listeners)
        /\ \A i \in 1..Len(r.listeners) : r.listeners[i] = r.emitted
        /\ r.session = session

\* start_game has run in round 2 with two listeners registered.
C20_Witness ==
    /\ last.op = "start_game"
    /\ round = 2
    /\ Len(listeners) = 2
    /\ emitted = <<GameStarted, RoundStarted(2)>>
    /\ listeners[1] = emitted
    /\ listeners[2] = emitted

\* ------------------------------------------------------------ C21
\* C21: a call of GameManager::start_next_round() updates the session and
\* emits exactly one event, RoundStarted(n), n being the round counter after
\* the increment (the old counter plus 1), to every listener; no other
\* operation moves the round counter, so the numbers that successive calls
\* emit are consecutive.
C21_RoundStartedNumber ==
    [][IF last'.op = "manager_start_next_round"
       THEN /\ \E k \in 0..(MaxManagerShift - 1) :
                  session' = start_next_round(session, k)
            /\ round' = round + 1
            /\ emitted' = <<RoundStarted(round + 1)>>
            /\ emitted'[1].round = round'
            /\ \A i \in 1..Len(listeners') : listeners'[i] = emitted'
       ELSE round' = round]_vars

\* Round 2 has just been announced to a listener, after a move of round 1.
C21_Witness ==
    /\ last.op = "manager_start_next_round"
    /\ round = 2
    /\ moves > 0
    /\ emitted = <<RoundStarted(2)>>
    /\ Len(listeners) > 0
    /\ listeners[1] = <<RoundStarted(2)>>

\* ------------------------------------------------------------ C22
\* C22: end_game() emits exactly one GameEnded(winner, totals), winner being
\* get_overall_winner() and totals the current cumulative totals, in any
\* state, mid-round included, and leaves the session as it was; the call
\* after it is not blocked: a valid move is carried out and start_next_round
\* opens the next round, exactly as on the session before end_game.
C22_EndGameFrame ==
    [][/\ last'.op = "end_game" =>
            /\ session' = session
            /\ emitted' = <<GameEnded(get_overall_winner(session), total_scores)>>
       /\ (last.op = "end_game" /\ last'.op = "make_move" /\ last'.ok) =>
            /\ session' = process_move(session, emitted'[1].target).session
            /\ board' # board
            /\ moves' = moves + 1
       /\ (last.op = "end_game" /\ last'.op = "manager_start_next_round") =>
            /\ round' = round + 1
            /\ \E k \in 0..(MaxManagerShift - 1) :
                  session' = start_next_round(session, k)]_vars

\* end_game has run in the middle of round 2, with totals from round 1 and
\* a destination still open to the player to move.
C22_Witness ==
    /\ last.op = "end_game"
    /\ round = 2
    /\ ~is_round_over(session)
    /\ Len(emitted) = 1
    /\ emitted[1].kind = "GameEnded"
    /\ emitted[1].winner # "None"
    /\ emitted[1].totals = total_scores
    /\ \E target \in MoveInputs : Valid(target)

\* ------------------------------------------------------------ C23
NoGameEnded(events) ==
    \A i \in 1..Len(events) : events[i].kind # "GameEnded"

\* C23: GameEnded is emitted only by end_game(): what start_game, make_move
\* and start_next_round have emitted holds no GameEnded, in whatever round
\* and on whatever board, and add_listener emits nothing.
C23_OnlyEndGameEnds ==
    /\ last.op \in {"start_game", "make_move", "manager_start_next_round"} =>
          NoGameEnded(emitted)
    /\ last.op \in {"new", "new_with_board"} => emitted = <<>>
    /\ add_listener(manager).emitted = emitted
    /\ add_listener(manager).delivered = delivered

\* The second move of a session has taken the last tile: the round is over
\* and what was emitted holds no GameEnded.
C23_Witness ==
    /\ last.op = "make_move"
    /\ moves = 2
    /\ is_round_over(session)
    /\ emitted # <<>>
    /\ NoGameEnded(emitted)

\* ------------------------------------------------------------ C24
\* Each event in turn to the listeners 1..n in turn.
InOrder(events, n) ==
    [x \in 1..(Len(events) * n) |->
        <<((x - 1) % n) + 1, events[((x - 1) \div n) + 1]>>]

\* C24: every event an operation has emitted was delivered to all registered
\* listeners in registration order, and to all of them before the next event
\* of the operation; when the operation has returned, every listener has
\* received the same sequence, the events the operation emitted.
C24_DeliveryOrder ==
    last.op \in {"start_game", "make_move", "manager_start_next_round", "end_game"} =>
        /\ delivered = InOrder(emitted, Len(listeners))
        /\ \A i \in 1..Len(listeners) : listeners[i] = emitted

\* Two events have gone to two listeners: the first event to both, then the
\* second event to both.
C24_Witness ==
    /\ last.op = "make_move"
    /\ Len(listeners) = 2
    /\ Len(emitted) = 2
    /\ emitted[1] # emitted[2]
    /\ delivered = <<<<1, emitted[1]>>, <<2, emitted[1]>>,
                     <<1, emitted[2]>>, <<2, emitted[2]>>>>

\* ------------------------------------------------------------ C25
Fresh(s, mode) ==
    /\ s.round = 1
    /\ s.current_player = "First"
    /\ s.game_mode = mode
    /\ s.players = IF mode = "TwoPlayers"
                   THEN <<"First", "Second">>
                   ELSE <<"First", "Second", "Third", "Fourth">>
    /\ DOMAIN s.scores = Range(s.players)
    /\ DOMAIN s.total_scores = Range(s.players)
    /\ \A p \in Range(s.players) :
          /\ s.scores[p].total = 0
          /\ s.scores[p].pieces = <<>>
          /\ s.total_scores[p] = 0

\* C25: a newly constructed session has round 1, First to move, the active
\* players [First, Second] in TwoPlayers mode and [First, Second, Third,
\* Fourth] in FourPlayers mode, and for exactly those players a round total
\* of 0, an empty capture history and a cumulative total of 0.
C25_NewSession ==
    /\ last.op \in {"new", "new_with_board"} => Fresh(session, game_mode)
    /\ \A mode \in GameModes : Fresh(new_with_board(board, mode), mode)

\* A four-player session as constructed around a scenario board.
C25_Witness ==
    /\ last.op = "new_with_board"
    /\ game_mode = "FourPlayers"
    /\ Len(players) = 4
    /\ EmptyCells(board) # {}
    /\ \A p \in Active : scores[p] = new_score /\ total_scores[p] = 0

\* ------------------------------------------------------------ C26
CountOf(b, v) == Cardinality({rc \in Cells(b.size) : piece_at(b, rc) = Number(v)})

SmallCensus(b) ==
    /\ Cardinality(Cells(b.size)) = 16
    /\ Cardinality(CrossCells(b)) = 1
    /\ EmptyCells(b) = {}
    /\ Cardinality(NumberCells(b)) = 15
    /\ \A v \in 1..7 : CountOf(b, v) = 2
    /\ CountOf(b, 8) = 1

\* C26: every freshly constructed Small board, at session creation and
\* after start_next_round, has 16 cells: one Cross, no Empty cell and 15
\* Number cells, the values 1..7 twice each and 8 once, wherever they lie.
C26_SmallBoard ==
    (last.op \in {"new", "start_next_round"} /\ board.size = "Small") =>
        SmallCensus(board)

\* A Small board dealt by start_next_round after moves of round 1, with the
\* marker away from the corner cell.
C26_Witness ==
    /\ last.op = "start_next_round"
    /\ board.size = "Small"
    /\ moves > 0
    /\ board.cross_position # <<3, 3>>
    /\ Cardinality(NumberCells(board)) = 15

\* ------------------------------------------------------------ C27
LargeCensus(b) ==
    /\ Cardinality(Cells(b.size)) = 36
    /\ Cardinality(CrossCells(b)) = 1
    /\ EmptyCells(b) = {}
    /\ Cardinality(NumberCells(b)) = 35
    /\ \E rc \in NumberCells(b) : piece_at(b, rc).v > 0
    /\ \E rc \in NumberCells(b) : piece_at(b, rc).v < 0

\* C27: every freshly constructed Large board has 36 cells: one Cross, no
\* Empty cell and 35 Number cells, positive and negative values among them;
\* for both sizes the tile list has rows*cols entries, so the assertion of
\* initialize holds.
C27_LargeBoard ==
    /\ (last.op \in {"new", "start_next_round"} /\ board.size = "Large") =>
          LargeCensus(board)
    /\ \A size \in Sizes : initialize_asserts(size)

\* A Large board dealt by start_next_round.
C27_Witness ==
    /\ last.op = "start_next_round"
    /\ board.size = "Large"
    /\ round = 2
    /\ Cardinality(NumberCells(board)) = 35
    /\ \E rc \in NumberCells(board) : piece_at(board, rc).v < 0

\* ------------------------------------------------------------ C28
\* C28: only numbered cells are move targets: every capture history holds
\* Number pieces only, and a successful move is onto a Number and lengthens
\* the mover's history by exactly one entry, the other histories staying.
C28_OnlyNumbersCaptured ==
    /\ \A p \in Active :
          \A i \in 1..Len(scores[p].pieces) : scores[p].pieces[i].t = "Number"
    /\ \A target \in Probes(board, current_player) \cup FarTargets :
          LET r == process_move(session, target)
          IN  r.ok =>
                /\ piece_at(board, target).t = "Number"
                /\ r.session.scores[current_player].pieces =
                     Append(scores[current_player].pieces, piece_at(board, target))
                /\ \A p \in Active \ {current_player} :
                      r.session.scores[p].pieces = scores[p].pieces

\* A player has made a second capture on a line that has an emptied cell.
C28_Witness ==
    /\ last.op = "process_move"
    /\ last.ok
    /\ \E p \in Active : Len(scores[p].pieces) = 2
    /\ \E rc \in EmptyCells(board) :
          rc[1] = board.cross_position[1] \/ rc[2] = board.cross_position[2]

\* ------------------------------------------------------------ C29
\* C29: within a round an Empty cell stays Empty, the cell the marker stands
\* on holds Cross until the marker leaves and Empty from then on, and a
\* Number cell keeps its tile until the marker lands on it; the board
\* changes only by a successful move or by start_next_round replacing it.
C29_CapturedStaysEmpty ==
    [][/\ round' = round =>
            \A rc \in Cells(board.size) :
                /\ piece_at(board, rc) = Empty => piece_at(board', rc) = Empty
                /\ piece_at(board, rc) = Cross =>
                      piece_at(board', rc) =
                          IF board'.cross_position = rc THEN Cross ELSE Empty
                /\ piece_at(board, rc).t = "Number" =>
                      piece_at(board', rc) =
                          IF board'.cross_position = rc THEN Cross
                          ELSE piece_at(board, rc)
       /\ board' # board =>
            \/ last'.op \in {"process_move", "make_move"} /\ last'.ok
            \/ last'.op \in {"start_next_round", "manager_start_next_round"}
                 /\ round' = round + 1]_vars

\* Three moves into a round: two cells emptied, the marker on a third.
C29_Witness ==
    /\ last.op = "process_move"
    /\ last.ok
    /\ round = 1
    /\ moves = 3
    /\ Cardinality(EmptyCells(board)) >= 3
    /\ NumberCells(board) # {}

\* ------------------------------------------------------------ C30
\* C30: get_valid_moves(player) lists its destinations in strictly ascending
\* column for First and Third and strictly ascending row for Second and
\* Fourth, hence without duplicates.
C30_AscendingMoves ==
    \A p \in Players :
        LET v == get_valid_moves(board, p)
            axis(t) == IF p \in {"First", "Third"} THEN t[2] ELSE t[1]
        IN  /\ \A i \in 1..(Len(v) - 1) : axis(v[i]) < axis(v[i + 1])
            /\ \A i, j \in 1..Len(v) : v[i] = v[j] => i = j

\* The player to move has destinations on both sides of the marker, beyond
\* an emptied cell.
C30_Witness ==
    /\ moves > 0
    /\ LET v == get_valid_moves(board, current_player)
       IN  /\ Len(v) >= 2
           /\ \E i \in 1..(Len(v) - 1) :
                 (v[i + 1][1] - v[i][1]) + (v[i + 1][2] - v[i][2]) > 1

\* ------------------------------------------------------------ C31
\* C31: get_piece(row, col) is the cell's piece for every coordinate inside
\* the grid and Empty for every coordinate with row >= rows or col >= cols.
C31_GetPiece ==
    \A rc \in Targets(board.size) :
        get_piece(board, rc[1], rc[2]) =
            IF rc[1] < dimensions(board.size)[1] /\ rc[2] < dimensions(board.size)[2]
            THEN piece_at(board, rc)
            ELSE Empty

\* A Large board in play: the marker's cell reads Cross, an emptied cell and
\* the coordinates past the last row and the last column read Empty.
C31_Witness ==
    /\ board.size = "Large"
    /\ moves > 0
    /\ get_piece(board, board.cross_position[1], board.cross_position[2]) = Cross
    /\ EmptyCells(board) # {}
    /\ get_piece(board, 6, 0) = Empty
    /\ get_piece(board, 0, 6) = Empty
    /\ get_piece(board, 10, 10) = Empty
    /\ piece_at(board, <<5, 0>>) # Empty

\* ------------------------------------------------------------ C32
IndexOf(seq, x) == CHOOSE i \in 1..Len(seq) : seq[i] = x

\* C32: for each mode m and each player p of its active list, of length n,
\* next_for_mode(p, m) is the active player at position (index of p + 1)
\* mod n, so it is an active player of m again; the player the session
\* passes the turn to is the one that indexing into its list gives.
C32_RotationByIndex ==
    /\ \A m \in GameModes :
          LET active == get_players(m)
              n == Len(active)
          IN  \A p \in Range(active) :
                /\ next_for_mode(p, m) = active[(IndexOf(active, p) % n) + 1]
                /\ next_for_mode(p, m) \in Range(active)
    /\ current_player \in Active =>
          next_for_mode(current_player, game_mode) =
              players[(IndexOf(players, current_player) % Len(players)) + 1]

\* Fourth, the last of the four-player list, is to move: the rotation wraps.
C32_Witness ==
    /\ game_mode = "FourPlayers"
    /\ current_player = "Fourth"
    /\ last.op = "process_move"
    /\ last.ok
    /\ next_for_mode(current_player, game_mode) = players[1]

\* ------------------------------------------------------------ C33
\* C33: in every reachable state the current player is one of the active
\* players; in TwoPlayers mode it is never Third or Fourth.
C33_CurrentPlayerActive ==
    /\ current_player \in Active
    /\ game_mode = "TwoPlayers" => current_player \in {"First", "Second"}

\* A two-player session in round 2 after moves and a rejected move.
C33_Witness ==
    /\ game_mode = "TwoPlayers"
    /\ round = 2
    /\ moves >= 2
    /\ last.op = "process_move"
    /\ ~last.ok
    /\ current_player = "Second"

\* ------------------------------------------------------------ C34
RECURSIVE SeqSum(_)
SeqSum(seq) == IF seq = <<>> THEN 0 ELSE seq[1] + SeqSum(Tail(seq))

\* Successful moves of the round: the captures in the active players' histories.
CapturesInRound == SeqSum([i \in 1..Len(players) |-> Len(scores[players[i]].pieces)])

CellCount(b) == dimensions(b.size)[1] * dimensions(b.size)[2]

BoardValues(b) ==
    LET cols == dimensions(b.size)[2]
    IN  [x \in 1..CellCount(b) |->
           LET piece == b.pieces[(x - 1) \div cols][(x - 1) % cols]
           IN  IF piece.t = "Number" THEN piece.v ELSE 0]

RoundTotals == [i \in 1..Len(players) |-> scores[players[i]].total]

NoMoveEvent(events) ==
    \A i \in 1..Len(events) : events[i].kind \notin {"MoveMade", "RoundEnded"}

\* C36: once a round is over no destination is valid for any player, every
\* make_move, whatever its target, is answered by one InvalidMove and leaves
\* the session as it is, and start_game and end_game emit neither MoveMade
\* nor RoundEnded: RoundEnded is not emitted a second time in the round.
C36_RoundEndedOnce ==
    is_round_over(session) =>
        /\ \A p \in Players : get_valid_moves(board, p) = <<>>
        /\ \A target \in Targets(board.size) :
              LET r == manager_make_move(manager, target)
              IN  /\ Kinds(r.emitted) = <<"InvalidMove">>
                  /\ r.session = session
        /\ NoMoveEvent(start_game(manager).emitted)
        /\ NoMoveEvent(end_game(manager).emitted)
        /\ last.op = "make_move" =>
              \/ last.ok /\ Kinds(emitted) = <<"MoveMade", "RoundEnded">>
              \/ ~last.ok /\ Kinds(emitted) = <<"InvalidMove">>

\* A move on a finished round has been rejected in front of a listener.
C36_Witness ==
    /\ is_round_over(session)
    /\ last.op = "make_move"
    /\ ~last.ok
    /\ moves > 0
    /\ Kinds(emitted) = <<"InvalidMove">>
    /\ Len(listeners) > 0
    /\ listeners[1] = emitted

\* ------------------------------------------------------------ C37
\* C37: only start_next_round changes the cumulative totals and the round
\* counter: a step of start_game, make_move or process_move (accepted or
\* rejected), end_game or add_listener leaves both as they are, and a step
\* of start_game leaves the whole session as it is.
C37_TotalsFrame ==
    [][/\ last'.op \notin {"start_next_round", "manager_start_next_round"} =>
            /\ total_scores' = total_scores
            /\ round' = round
       /\ last'.op = "start_game" =>
            /\ board' = board
            /\ current_player' = current_player
            /\ scores' = scores
            /\ session' = session]_vars

\* start_game has run in round 2 with totals and round scores on the books.
C37_Witness ==
    /\ last.op = "start_game"
    /\ round = 2
    /\ \E p \in Active : total_scores[p] # 0
    /\ \E p \in Active : scores[p].total # 0

\* ------------------------------------------------------------ C38
\* The manager with no listener registered.
Unobserved == [manager EXCEPT !.listeners = <<>>, !.delivered = <<>>]

SameOutcome(r) == session' = r.session /\ emitted' = r.emitted

\* C38: every operation leaves the session and emits the events that the
\* same operation leaves and emits with no listener registered, so that for
\* one initial board and one sequence of operations session and events do
\* not depend on the listeners; add_listener changes neither, and the
\* listener it registers has received nothing of what was emitted before.
C38_ListenersDoNotInfluence ==
    [][/\ last'.op = "start_game" => SameOutcome(start_game(Unobserved))
       /\ last'.op = "make_move" =>
            SameOutcome(manager_make_move(Unobserved, emitted'[1].target))
       /\ last'.op = "manager_start_next_round" =>
            \E k \in 0..(MaxManagerShift - 1) :
                SameOutcome(manager_start_next_round(Unobserved, k))
       /\ last'.op = "end_game" => SameOutcome(end_game(Unobserved))
       /\ last'.op = "add_listener" =>
            /\ session' = session
            /\ emitted' = emitted
            /\ Len(listeners') = Len(listeners) + 1
            /\ \A i \in 1..Len(listeners) : listeners'[i] = listeners[i]
            /\ listeners'[Len(listeners')] = <<>>]_vars

\* A second listener has been registered after events were emitted: the
\* first holds them, the newcomer holds none.
C38_Witness ==
    /\ last.op = "add_listener"
    /\ Len(listeners) = 2
    /\ emitted # <<>>
    /\ listeners[1] = emitted
    /\ listeners[2] = <<>>
    /\ moves > 0

====
